---- MODULE Spec2Model ----
(***************************************************************************)
(* Version-aware page store of RikiWiki (wiki/core.py): Page, Processor    *)
(* and Wiki.  Strings are sequences of one-character strings, so that the  *)
(* path and filename transforms of the code (rsplit, replace, re.sub,      *)
(* re.findall, str, int) are computed character by character.              *)
(***************************************************************************)
EXTENDS Integers, Sequences, FiniteSets, TLC

VARIABLES disk, dirs, page, ret, nsaves, db

vars == <<disk, dirs, page, ret, nsaves, db>>

(***************************************************************************)
(* Bounds of the model.                                                    *)
(***************************************************************************)
MaxFiles == 3      \* files of an initial directory layout
MaxPages == 3      \* length of a page list passed to a collection function
MaxSaves == 3      \* saves of the single caller in one behaviour
MaxRacingSaves == 2 \* saves started by the uncoordinated callers together
MaxBodyLen == 2    \* characters of a body drawn for the round trip
MaxValueLen == 2   \* characters of a metadata value drawn for the round trip
MaxRows == 3       \* rows ever inserted into the pages table

(***************************************************************************)
(* Characters and string helpers.                                          *)
(***************************************************************************)
LF == "\n"
CR == "\r"
Digits == <<"0", "1", "2", "3", "4", "5", "6", "7", "8", "9">>

IsDigit(c) == c \in {"0", "1", "2", "3", "4", "5", "6", "7", "8", "9"}

DigitVal(c) == (CHOOSE k \in 1..10 : Digits[k] = c) - 1

RECURSIVE str(_)
\* str(version): the decimal numeral of a natural number
str(n) == IF n < 10 THEN <<Digits[n + 1]>>
          ELSE str(n \div 10) \o <<Digits[(n % 10) + 1]>>

RECURSIVE int(_)
\* int(s): the value of a non-empty decimal numeral
int(s) == IF Len(s) = 1 THEN DigitVal(s[1])
          ELSE 10 * int(SubSeq(s, 1, Len(s) - 1)) + DigitVal(s[Len(s)])

\* s[i..] starts with t
StartsAt(s, i, t) == /\ i + Len(t) - 1 <= Len(s)
                     /\ \A k \in 1..Len(t) : s[i + k - 1] = t[k]

RECURSIVE FindFrom(_, _, _)
FindFrom(s, t, i) ==
  IF i + Len(t) - 1 > Len(s) THEN 0
  ELSE IF StartsAt(s, i, t) THEN i
  ELSE FindFrom(s, t, i + 1)

\* str.find: index of the first occurrence of a non-empty t in s, 0 when
\* there is none
find(s, t) == FindFrom(s, t, 1)

RECURSIVE RFindFrom(_, _, _)
RFindFrom(s, cs, i) ==
  IF i = 0 THEN 0
  ELSE IF s[i] \in cs THEN i
  ELSE RFindFrom(s, cs, i - 1)

\* str.rfind for a one-character needle out of a set of characters
rfind(s, cs) == RFindFrom(s, cs, Len(s))

\* s.replace(old, '', 1): the first occurrence of old removed
replace_first(s, old) ==
  LET i == IF old = <<>> THEN 0 ELSE find(s, old)
  IN  IF i = 0 THEN s
      ELSE SubSeq(s, 1, i - 1) \o SubSeq(s, i + Len(old), Len(s))

RECURSIVE replace_all(_, _)
\* s.replace(old, ''): every non-overlapping occurrence of old removed
replace_all(s, old) ==
  LET i == IF old = <<>> THEN 0 ELSE find(s, old)
  IN  IF i = 0 THEN s
      ELSE SubSeq(s, 1, i - 1)
             \o replace_all(SubSeq(s, i + Len(old), Len(s)), old)

RECURSIVE TrailingDigitsFrom(_, _)
TrailingDigitsFrom(s, i) ==
  IF i = 0 THEN 0
  ELSE IF IsDigit(s[i]) THEN 1 + TrailingDigitsFrom(s, i - 1)
  ELSE 0

\* length of the maximal run of digits that ends s
TrailingDigits(s) == TrailingDigitsFrom(s, Len(s))

\* s.rstrip of the characters in cs
RECURSIVE rstrip(_, _)
rstrip(s, cs) == IF s # <<>> /\ s[Len(s)] \in cs
                 THEN rstrip(SubSeq(s, 1, Len(s) - 1), cs)
                 ELSE s

\* s.lstrip of the characters in cs
RECURSIVE lstrip(_, _)
lstrip(s, cs) == IF s # <<>> /\ s[1] \in cs
                 THEN lstrip(Tail(s), cs)
                 ELSE s

Seps == {"/", "\\"}

(***************************************************************************)
(* Page: path and filename transforms.                                     *)
(***************************************************************************)
\* ntpath.basename: what follows the last separator
get_filename_from_path(path) ==
  SubSeq(path, rfind(path, Seps) + 1, Len(path))

\* ntpath.dirname: what precedes the last separator, trailing separators
\* stripped unless nothing else is left
get_path_without_filename(path) ==
  LET head == SubSeq(path, 1, rfind(path, Seps))
  IN  IF rstrip(head, Seps) = <<>> THEN head ELSE rstrip(head, Seps)

\* filename.partition('.') in place of rsplit: a filename without '.' gets
\* an empty extension
split_filename_partition(filename) ==
  LET i == rfind(filename, {"."})
  IN  IF i = 0 THEN <<filename, <<>> >>
      ELSE <<SubSeq(filename, 1, i - 1), SubSeq(filename, i + 1, Len(filename))>>

\* filename.rsplit('.', 1): one element when the filename has no '.'
split_filename_from_extension(filename) ==
  LET i == rfind(filename, {"."})
  IN  IF i = 0 THEN <<filename>>
      ELSE <<SubSeq(filename, 1, i - 1), SubSeq(filename, i + 1, Len(filename))>>

\* re.sub(r'_v\d+$', '', filename)
get_filename_without_version(filename) ==
  LET k == TrailingDigits(filename)
      n == Len(filename)
  IN  IF k >= 1 /\ n - k >= 2
         /\ filename[n - k - 1] = "_" /\ filename[n - k] = "v"
      THEN SubSeq(filename, 1, n - k - 2)
      ELSE filename

\* re.match(r'^_v\d+$', temp)
IsVersionSuffix(temp) ==
  /\ Len(temp) >= 3
  /\ temp[1] = "_"
  /\ temp[2] = "v"
  /\ TrailingDigits(temp) = Len(temp) - 2

get_filename_without_extension(filepath) ==
  split_filename_from_extension(get_filename_from_path(filepath))[1]

\* re.findall('^.*([0-9]+)$', temp_file): the greedy '.*' leaves the group
\* the last character only
FindallVersion(temp_file) ==
  IF temp_file # <<>> /\ IsDigit(temp_file[Len(temp_file)])
  THEN <<SubSeq(temp_file, Len(temp_file), Len(temp_file))>>
  ELSE <<>>

get_version_from_filename(filename) ==
  LET version == FindallVersion(get_filename_without_extension(filename))
  IN  IF Len(version) = 0 THEN 0 ELSE int(version[1])

RECURSIVE HighestFrom(_, _)
HighestFrom(file_list, version) ==
  IF file_list = <<>> THEN version
  ELSE LET temp_version == get_version_from_filename(Head(file_list))
       IN  HighestFrom(Tail(file_list),
                       IF temp_version > version THEN temp_version ELSE version)

get_highest_version_number(file_list) == HighestFrom(file_list, 0)

(***************************************************************************)
(* The content tree.  disk is the sequence of regular files in directory   *)
(* order, each with its path and its text; dirs is the set of directories. *)
(***************************************************************************)
Paths(d) == {d[k].path : k \in 1..Len(d)}

exists(path, d, ds) == path \in Paths(d) \/ path \in ds

ReadFile(path, d) == d[CHOOSE k \in 1..Len(d) : d[k].path = path].content

\* open(path, 'w') followed by the writes: the file is created at the end
\* of the listing, or truncated and rewritten in place
WriteFile(path, text, d) ==
  IF path \in Paths(d)
  THEN [k \in 1..Len(d) |->
          IF d[k].path = path THEN [path |-> path, content |-> text] ELSE d[k]]
  ELSE Append(d, [path |-> path, content |-> text])

\* dir lies strictly below top
IsBelow(dir, top) == StartsAt(dir, 1, top \o <<"/">>)

\* os.walk(top): the filenames of top itself, then those of every directory
\* below it; nothing when top is not a directory
walk(top, d, ds) ==
  IF top \notin ds THEN <<>>
  ELSE LET here  == SelectSeq(d, LAMBDA e : get_path_without_filename(e.path) = top)
           below == SelectSeq(d, LAMBDA e : IsBelow(get_path_without_filename(e.path), top))
           all   == here \o below
       IN  [k \in 1..Len(all) |-> get_filename_from_path(all[k].path)]

(***************************************************************************)
(* Page: version resolution.                                               *)
(***************************************************************************)
get_all_versions_of_unversioned_file(path, unversioned_filename, ext, d, ds) ==
  SelectSeq(walk(path, d, ds),
            LAMBDA f : IsVersionSuffix(
                         replace_all(replace_first(f, unversioned_filename),
                                     <<".">> \o ext)))

\* filename_ext[1] raises IndexError when the filename has no '.'
HasExtension(file_path) ==
  Len(split_filename_from_extension(get_filename_from_path(file_path))) = 2

get_all_versions_of_file(file_path, d, ds) ==
  LET file_path_without_file == get_path_without_filename(file_path)
      filename == get_filename_from_path(file_path)
      filename_ext == split_filename_from_extension(filename)
      unversioned_filename == get_filename_without_version(filename_ext[1])
  IN  get_all_versions_of_unversioned_file(file_path_without_file,
                                           unversioned_filename,
                                           filename_ext[2], d, ds)

get_highest_version_number_from_file_path(file_path, d, ds) ==
  get_highest_version_number(get_all_versions_of_file(file_path, d, ds))

\* dirname + '/' + filename + '_v' + str(version) + '.' + ext
VersionedPath(dirname, filename, version, ext) ==
  dirname \o <<"/">> \o filename \o <<"_", "v">> \o str(version) \o <<".">> \o ext

get_highest_version_of_file_path(file_path, d, ds) ==
  LET version == get_highest_version_number_from_file_path(file_path, d, ds)
      path == get_path_without_filename(file_path)
      filename == get_filename_from_path(file_path)
      filename_ext == split_filename_from_extension(filename)
      filename_no_version == get_filename_without_version(filename_ext[1])
  IN  IF version > 0
      THEN VersionedPath(path, filename_no_version, version, filename_ext[2])
      ELSE file_path

\* 'page not in pages_to_return': Page defines no __eq__, so two pages are
\* equal when they are the same object
InList(pg, pages) == \E k \in 1..Len(pages) : pages[k].id = pg.id

RECURSIVE FilterFrom(_, _, _, _)
FilterFrom(pages, pages_to_return, d, ds) ==
  IF pages = <<>> THEN pages_to_return
  ELSE LET pg == Head(pages)
           p == get_highest_version_of_file_path(pg.path, d, ds)
       IN  FilterFrom(Tail(pages),
                      IF p = pg.path /\ ~InList(pg, pages_to_return)
                      THEN Append(pages_to_return, pg)
                      ELSE pages_to_return,
                      d, ds)

\* the kept pages in reverse order, as pages_to_return.insert(0, page) gives
filter_old_versions_prepend(pages, d, ds) ==
  LET kept == FilterFrom(pages, <<>>, d, ds)
  IN  [k \in 1..Len(kept) |-> kept[Len(kept) + 1 - k]]

filter_old_versions(pages, d, ds) == FilterFrom(pages, <<>>, d, ds)

RECURSIVE VersionsFrom(_, _, _)
VersionsFrom(versions, path, all_versions) ==
  IF versions = <<>> THEN <<>>
  ELSE SelectSeq(all_versions,
                 LAMBDA v : path \o <<"/">> \o Head(versions) = v.path)
         \o VersionsFrom(Tail(versions), path, all_versions)

get_versions(filepath, all_versions, d, ds) ==
  VersionsFrom(get_all_versions_of_file(filepath, d, ds),
               get_path_without_filename(filepath), all_versions)

(***************************************************************************)
(* Processor: splitting a text into metadata and body.  The rendered HTML  *)
(* is not modelled.                                                        *)
(***************************************************************************)
White == {" ", "\t", LF, CR}

LowerLetters == {"a", "b", "c", "d", "e", "f", "g", "h", "i", "j", "k", "l", "m",
                 "n", "o", "p", "q", "r", "s", "t", "u", "v", "w", "x", "y", "z"}

\* [A-Za-z0-9_-] of the metadata key pattern, upper case limited to "T"
KeyChars == LowerLetters \cup {"T", "_", "-"} \cup {Digits[k] : k \in 1..10}

\* str.lower
lower(s) == [k \in 1..Len(s) |-> IF s[k] = "T" THEN "t" ELSE s[k]]

\* str.strip
strip(s) == lstrip(rstrip(s, White), White)

RECURSIVE split(_, _)
\* s.split(sep) for a non-empty separator
split(s, sep) ==
  LET i == find(s, sep)
  IN  IF i = 0 THEN <<s>>
      ELSE <<SubSeq(s, 1, i - 1)>> \o split(SubSeq(s, i + Len(sep), Len(s)), sep)

RECURSIVE join(_, _)
\* sep.join(parts)
join(parts, sep) ==
  IF parts = <<>> THEN <<>>
  ELSE IF Len(parts) = 1 THEN parts[1]
  ELSE parts[1] \o sep \o join(Tail(parts), sep)

\* number of spaces that start the line
RECURSIVE LeadingSpaces(_)
LeadingSpaces(line) ==
  IF line # <<>> /\ line[1] = " " THEN 1 + LeadingSpaces(Tail(line)) ELSE 0

\* length of the run of key characters that starts the line
RECURSIVE KeyRun(_)
KeyRun(line) ==
  IF line # <<>> /\ line[1] \in KeyChars THEN 1 + KeyRun(Tail(line)) ELSE 0

\* META_RE of the markdown meta extension:
\* ^[ ]{0,3}(?P<key>[A-Za-z0-9_-]+):\s*(?P<value>.*)
MetaLineMatches(line) ==
  LET sp == LeadingSpaces(line)
      rest == SubSeq(line, sp + 1, Len(line))
      k == KeyRun(rest)
  IN  sp <= 3 /\ k >= 1 /\ k < Len(rest) /\ rest[k + 1] = ":"

MetaLineKey(line) ==
  LET sp == LeadingSpaces(line)
  IN  SubSeq(line, sp + 1, sp + KeyRun(SubSeq(line, sp + 1, Len(line))))

MetaLineValue(line) ==
  LET sp == LeadingSpaces(line)
      k == KeyRun(SubSeq(line, sp + 1, Len(line)))
  IN  SubSeq(line, sp + k + 2, Len(line))

HasKey(meta, key) == \E k \in 1..Len(meta) : meta[k][1] = key

Lookup(meta, key) == meta[CHOOSE k \in 1..Len(meta) : meta[k][1] = key][2]

\* meta[key] = value on an ordered mapping: a present key keeps its place
SetItem(meta, key, value) ==
  IF HasKey(meta, key)
  THEN [k \in 1..Len(meta) |-> IF meta[k][1] = key THEN <<key, value>> ELSE meta[k]]
  ELSE Append(meta, <<key, value>>)

RECURSIVE MdMetaLoop(_, _, _)
\* the loop of the meta extension over the lines of the text: key lines and
\* their indented continuation lines, up to the first blank or foreign line;
\* none stands for 'no key seen yet'
MdMetaLoop(lines, meta, key) ==
  IF lines = <<>> THEN meta
  ELSE LET line == Head(lines)
       IN  IF strip(line) = <<>> THEN meta
           ELSE IF MetaLineMatches(line)
           THEN LET k == lower(MetaLineKey(line))
                    v == strip(MetaLineValue(line))
                IN  MdMetaLoop(Tail(lines),
                               SetItem(meta, k,
                                       IF HasKey(meta, k)
                                       THEN Append(Lookup(meta, k), v)
                                       ELSE <<v>>),
                               <<k>>)
           ELSE IF LeadingSpaces(line) >= 4 /\ key # <<>>
           THEN MdMetaLoop(Tail(lines),
                           SetItem(meta, key[1],
                                   Append(Lookup(meta, key[1]), strip(line))),
                           key)
           ELSE meta

\* md.Meta after md.convert(text): key -> list of value lines
MdMeta(text) == MdMetaLoop(split(text, <<LF>>), <<>>, <<>>)

RECURSIVE ProcessMetaLoop(_, _, _)
\* process_meta: one entry per line of the raw header, in order; the lookup
\* of a key the extension did not record raises KeyError
ProcessMetaLoop(lines, mdmeta, meta) ==
  IF lines = <<>> THEN [err |-> "none", meta |-> meta]
  ELSE LET key == lower(split(Head(lines), <<":">>)[1])
       IN  IF ~HasKey(mdmeta, key) THEN [err |-> "KeyError", meta |-> meta]
           ELSE ProcessMetaLoop(Tail(lines), mdmeta,
                                SetItem(meta, key, join(Lookup(mdmeta, key), <<LF>>)))

\* Processor.process: (markdown, meta) of a text, or the error it raises
process(text) ==
  LET i == find(text, <<LF, LF>>)
  IN  IF i = 0
      THEN [err |-> "ValueError", body |-> <<>>, meta |-> <<>>]
      ELSE LET meta_raw == SubSeq(text, 1, i - 1)
               markdown == SubSeq(text, i + 2, Len(text))
               pm == ProcessMetaLoop(split(meta_raw, <<LF>>), MdMeta(text), <<>>)
           IN  [err |-> pm.err, body |-> markdown, meta |-> pm.meta]

(***************************************************************************)
(* Page: construction, load, render and save.                              *)
(***************************************************************************)
\* a caller that holds no Page object
NoPage == [state |-> "none", path |-> <<>>, url |-> <<>>, meta |-> <<>>,
           body |-> <<>>, hasbody |-> FALSE, content |-> <<>>,
           pc |-> "idle", all_versions |-> <<>>]

RECURSIVE replace(_, _, _)
\* s.replace(old, new) for a non-empty old
replace(s, old, new) ==
  LET i == find(s, old)
  IN  IF i = 0 THEN s
      ELSE SubSeq(s, 1, i - 1) \o new
             \o replace(SubSeq(s, i + Len(old), Len(s)), old, new)

\* reading in text mode: '\r\n' and a lone '\r' arrive as '\n'
universal_newlines(s) == replace(replace(s, <<CR, LF>>, <<LF>>), <<CR>>, <<LF>>)

\* Page.load: the text of the file at path
load(path, d) == universal_newlines(ReadFile(path, d))

\* Page(path, url, new=True): no load, no body attribute yet
BarePage(path, url) ==
  [state |-> "live", path |-> path, url |-> url, meta |-> <<>>,
   body |-> <<>>, hasbody |-> FALSE, content |-> <<>>,
   pc |-> "idle", all_versions |-> <<>>]

\* Page(path, url): load and render; err names the exception that leaves
\* the caller without a page
LoadedPage(path, url, d) ==
  IF path \notin Paths(d)
  THEN [err |-> "IOError", pg |-> NoPage]
  ELSE LET content == load(path, d)
           r == process(content)
       IN  [err |-> r.err,
            pg  |-> [state |-> "live", path |-> path, url |-> url, meta |-> r.meta,
                     body |-> r.body, hasbody |-> TRUE, content |-> content,
                     pc |-> "idle", all_versions |-> <<>>]]

RECURSIVE HeaderLinesReversed(_)
\* the entries written last to first, as a mapping without order may give
HeaderLinesReversed(meta) ==
  IF meta = <<>> THEN <<>>
  ELSE HeaderLinesReversed(Tail(meta))
         \o Head(meta)[1] \o <<":", " ">> \o Head(meta)[2] \o <<LF>>

RECURSIVE HeaderLines(_)
\* u'%s: %s\n' % (key, value) for every metadata entry in order
HeaderLines(meta) ==
  IF meta = <<>> THEN <<>>
  ELSE Head(meta)[1] \o <<":", " ">> \o Head(meta)[2] \o <<LF>> \o HeaderLines(Tail(meta))

\* os.makedirs(folder): folder and the ancestors it lacks
makedirs(folder, ds) ==
  ds \cup {folder}
     \cup {SubSeq(folder, 1, k - 1) : k \in {j \in 2..Len(folder) : folder[j] = "/"}}

\* the next version taken from the page's own filename instead of the
\* highest version of the directory listing
save_scan_own_version(pg, d, ds) ==
  LET all_versions == get_all_versions_of_file(pg.path, d, ds)
      version == get_version_from_filename(pg.path) + 1
      dirname == get_path_without_filename(pg.path)
      filename_ext == split_filename_from_extension(get_filename_from_path(pg.path))
      filename == get_filename_without_version(filename_ext[1])
  IN  [pg EXCEPT !.path = VersionedPath(dirname, filename, version, filename_ext[2]),
                 !.all_versions = all_versions,
                 !.pc = "scanned"]

\* the scan without the assignment of self.path: the save writes to the
\* path the page was opened with
save_scan_keep_path(pg, d, ds) ==
  [pg EXCEPT !.all_versions = get_all_versions_of_file(pg.path, d, ds),
             !.pc = "scanned"]

\* Page.save, lines 383-392: scan the family and rename the page
save_scan(pg, d, ds) ==
  LET all_versions == get_all_versions_of_file(pg.path, d, ds)
      version == get_highest_version_number(all_versions) + 1
      dirname == get_path_without_filename(pg.path)
      filename_ext == split_filename_from_extension(get_filename_from_path(pg.path))
      filename == get_filename_without_version(filename_ext[1])
  IN  [pg EXCEPT !.path = VersionedPath(dirname, filename, version, filename_ext[2]),
                 !.all_versions = all_versions,
                 !.pc = "scanned"]

\* Page.save, lines 394-404: create the folder, write header, blank line
\* and body, then load and render again.  A page without a body raises
\* AttributeError after the header is written; a text that does not parse
\* raises from render with only the content updated.
save_write(pg, d, ds) ==
  LET folder == get_path_without_filename(pg.path)
      ds2 == IF exists(folder, d, ds) THEN ds ELSE makedirs(folder, ds)
      head == HeaderLines(pg.meta) \o <<LF>>
      text == IF pg.hasbody THEN head \o replace(pg.body, <<CR, LF>>, <<LF>>) ELSE head
      d2 == WriteFile(pg.path, text, d)
      content == load(pg.path, d2)
      r == process(content)
      done == [pg EXCEPT !.pc = "idle", !.all_versions = <<>>]
  IN  IF ~pg.hasbody
      THEN [err |-> "AttributeError", pg |-> done, disk |-> d2, dirs |-> ds2]
      ELSE IF r.err # "none"
      THEN [err |-> r.err, pg |-> [done EXCEPT !.content = content],
            disk |-> d2, dirs |-> ds2]
      ELSE [err |-> "none",
            pg |-> [done EXCEPT !.content = content, !.body = r.body, !.meta = r.meta],
            disk |-> d2, dirs |-> ds2]

(***************************************************************************)
(* Wiki: lookup of pages by url.                                           *)
(***************************************************************************)
\* os.path.join(root, url + '.md')
wiki_path(wroot, url) ==
  IF url # <<>> /\ url[1] = "/" THEN url \o <<".">> \o <<"m", "d">>
  ELSE wroot \o <<"/">> \o url \o <<".">> \o <<"m", "d">>

(***************************************************************************)
(* Names used by the initial content trees.                                *)
(***************************************************************************)
root == <<"d">>
subdir == root \o <<"/", "s">>
md == <<"m", "d">>
note == <<"n", "o", "t", "e">>
other == <<"o", "t", "h", "e", "r">>

\* <dir>/<stem>.md for version 0, <dir>/<stem>_v<version>.md otherwise
FilePath(dir, stem, version) ==
  IF version = 0 THEN dir \o <<"/">> \o stem \o <<".">> \o md
  ELSE VersionedPath(dir, stem, version, md)

\* title: t / tags: a / blank line / body b
DefaultContent ==
  <<"t", "i", "t", "l", "e", ":", " ", "t", LF,
    "t", "a", "g", "s", ":", " ", "a", LF, LF, "b">>

\* the files an initial content tree is drawn from, in directory order
Universe ==
  << FilePath(root, note, 0), FilePath(root, note, 1), FilePath(root, note, 2),
     FilePath(root, note, 3), FilePath(root, note, 9), FilePath(root, note, 10),
     FilePath(root, other, 0), FilePath(subdir, note, 3) >>

LayoutOf(S) ==
  LET chosen == SelectSeq(Universe, LAMBDA p : p \in S)
  IN  [k \in 1..Len(chosen) |-> [path |-> chosen[k], content |-> DefaultContent]]

Layouts ==
  {LayoutOf(S) : S \in {T \in SUBSET {Universe[k] : k \in 1..Len(Universe)} :
                          Cardinality(T) <= MaxFiles}}

\* the directories of a content tree: the root and the parents of its files
DirsOf(d) == {root} \cup {get_path_without_filename(d[k].path) : k \in 1..Len(d)}

NoRet == [op |-> "none", path |-> <<>>, pages |-> <<>>, val |-> <<>>, err |-> "none"]

\* no database connection has been opened
NoDb == [pages |-> <<>>, seq |-> 0, tags |-> <<>>]

PageIds == {1, 2}

\* Page objects of the files of the tree, as Wiki.index builds them; the
\* first file is also held by a second object (a second index call)
PagePool(d) ==
  {[id |-> <<k, 1>>, path |-> d[k].path] : k \in 1..Len(d)}
    \cup {[id |-> <<k, 2>>, path |-> d[k].path] : k \in {j \in 1..Len(d) : j = 1}}

SeqsUpTo(S, n) == UNION {[1..k -> S] : k \in 0..n}

(***************************************************************************)
(* Calls of the static collection functions on a content tree.  The calls  *)
(* leave the tree alone, so one call is recorded per behaviour.            *)
(***************************************************************************)
\* filename_ext[1] of a filename without '.' raises IndexError: the call
\* returns nothing
CallHighest(p) ==
  /\ ret.op = "none"
  /\ ret' = IF HasExtension(p)
            THEN [op |-> "get_highest_version_of_file_path", path |-> p, pages |-> <<>>,
                  val |-> get_highest_version_of_file_path(p, disk, dirs), err |-> "none"]
            ELSE [op |-> "get_highest_version_of_file_path", path |-> p, pages |-> <<>>,
                  val |-> <<>>, err |-> "IndexError"]
  /\ UNCHANGED <<disk, dirs, page, nsaves, db>>

CallFilter(pages) ==
  /\ ret.op = "none"
  /\ ret' = [op |-> "filter_old_versions", path |-> <<>>, pages |-> pages,
             val |-> filter_old_versions(pages, disk, dirs), err |-> "none"]
  /\ UNCHANGED <<disk, dirs, page, nsaves, db>>

CallVersions(p, pages) ==
  /\ ret.op = "none"
  /\ ret' = IF HasExtension(p)
            THEN [op |-> "get_versions", path |-> p, pages |-> pages,
                  val |-> get_versions(p, pages, disk, dirs), err |-> "none"]
            ELSE [op |-> "get_versions", path |-> p, pages |-> pages,
                  val |-> <<>>, err |-> "IndexError"]
  /\ UNCHANGED <<disk, dirs, page, nsaves, db>>

\* Page.__get_version_from_filename on a filename of the tree
CallVersion(filename) ==
  /\ ret.op = "none"
  /\ ret' = [op |-> "get_version_from_filename", path |-> filename, pages |-> <<>>,
             val |-> <<get_version_from_filename(filename)>>, err |-> "none"]
  /\ UNCHANGED <<disk, dirs, page, nsaves, db>>

\* Page.__get_all_versions_of_file on a path of the tree: the sibling scan
CallSiblings(p) ==
  /\ ret.op = "none"
  /\ ret' = IF HasExtension(p)
            THEN [op |-> "get_all_versions_of_file", path |-> p, pages |-> <<>>,
                  val |-> get_all_versions_of_file(p, disk, dirs), err |-> "none"]
            ELSE [op |-> "get_all_versions_of_file", path |-> p, pages |-> <<>>,
                  val |-> <<>>, err |-> "IndexError"]
  /\ UNCHANGED <<disk, dirs, page, nsaves, db>>

InitQuery ==
  /\ disk \in Layouts
  /\ dirs = DirsOf(disk)
  /\ page = [i \in PageIds |-> NoPage]
  /\ ret = NoRet
  /\ nsaves = 0
  /\ db = NoDb

NextQuery ==
  \/ /\ ret.op = "none"
     /\ \E p \in Paths(disk) : CallHighest(p)
  \/ /\ ret.op = "none"
     /\ \E pages \in SeqsUpTo(PagePool(disk), MaxPages) : CallFilter(pages)
  \/ /\ ret.op = "none"
     /\ \E p \in Paths(disk), pages \in SeqsUpTo(PagePool(disk), MaxPages) :
          CallVersions(p, pages)
  \/ /\ ret.op = "none"
     /\ \E p \in Paths(disk) : CallVersion(get_filename_from_path(p))
  \/ /\ ret.op = "none"
     /\ \E p \in Paths(disk) : CallSiblings(p)

SpecQuery == InitQuery /\ [][NextQuery]_vars

(***************************************************************************)
(* Callers: each holds one Page object and edits and saves it.             *)
(***************************************************************************)
\* the url of a file below the root: the path without root and '.md'
UrlOf(path) == SubSeq(path, Len(root) + 2, Len(path) - 3)

Urls(d) == {UrlOf(p) : p \in Paths(d)} \cup {note}

Titles == {<<"t">>}
TagStrings == {<<"a">>}
Bodies == {<<"b">>, <<"c">>}

SaveRet(path, err) ==
  [op |-> "save", path |-> path, pages |-> <<>>, val |-> <<>>, err |-> err]

\* Wiki.get(url) of an existing page
Get(i, url) ==
  LET r == LoadedPage(wiki_path(root, url), url, disk)
  IN  /\ page[i].pc = "idle"
      /\ exists(wiki_path(root, url), disk, dirs)
      /\ r.err = "none"
      /\ page' = [page EXCEPT ![i] = r.pg]
      /\ ret' = NoRet
      /\ UNCHANGED <<disk, dirs, nsaves, db>>

\* Wiki.get_bare(url) of a url without a file
GetBare(i, url) ==
  /\ page[i].pc = "idle"
  /\ ~exists(wiki_path(root, url), disk, dirs)
  /\ page' = [page EXCEPT ![i] = BarePage(wiki_path(root, url), url)]
  /\ ret' = NoRet
  /\ UNCHANGED <<disk, dirs, nsaves, db>>

\* form.populate_obj(page): title, body and tags of the editor form
Edit(i, title, body, tags) ==
  /\ page[i].state = "live"
  /\ page[i].pc = "idle"
  /\ page' = [page EXCEPT ![i].meta = SetItem(SetItem(@, <<"t", "i", "t", "l", "e">>, title),
                                              <<"t", "a", "g", "s">>, tags),
                          ![i].body = body,
                          ![i].hasbody = TRUE]
  /\ ret' = NoRet
  /\ UNCHANGED <<disk, dirs, nsaves, db>>

\* Page.save() as one step; the scan of a path whose filename has no '.'
\* raises IndexError before self.path is assigned and before any file is
\* opened
Save(i) ==
  LET w == save_write(save_scan(page[i], disk, dirs), disk, dirs)
  IN  /\ page[i].state = "live"
      /\ page[i].pc = "idle"
      /\ nsaves < MaxSaves
      /\ nsaves' = nsaves + 1
      /\ UNCHANGED db
      /\ IF HasExtension(page[i].path)
         THEN /\ page' = [page EXCEPT ![i] = w.pg]
              /\ disk' = w.disk
              /\ dirs' = w.dirs
              /\ ret' = SaveRet(w.pg.path, w.err)
         ELSE /\ ret' = SaveRet(page[i].path, "IndexError")
              /\ UNCHANGED <<page, disk, dirs>>

\* Page.save() up to the assignment of self.path
SaveScan(i) ==
  /\ page[i].state = "live"
  /\ page[i].pc = "idle"
  /\ nsaves < MaxRacingSaves
  /\ nsaves' = nsaves + 1
  /\ IF HasExtension(page[i].path)
     THEN /\ page' = [page EXCEPT ![i] = save_scan(page[i], disk, dirs)]
          /\ ret' = NoRet
     ELSE /\ ret' = SaveRet(page[i].path, "IndexError")
          /\ UNCHANGED page
  /\ UNCHANGED <<disk, dirs, db>>

\* Page.save() from the folder check to the end
SaveWrite(i) ==
  LET w == save_write(page[i], disk, dirs)
  IN  /\ page[i].pc = "scanned"
      /\ page' = [page EXCEPT ![i] = w.pg]
      /\ disk' = w.disk
      /\ dirs' = w.dirs
      /\ ret' = SaveRet(w.pg.path, w.err)
      /\ UNCHANGED <<nsaves, db>>

SaveLayouts ==
  { LayoutOf({}),
    LayoutOf({FilePath(root, note, 0)}),
    LayoutOf({FilePath(root, note, 1), FilePath(root, note, 2), FilePath(root, other, 0)}),
    LayoutOf({FilePath(root, note, 9)}),
    LayoutOf({FilePath(root, note, 9), FilePath(root, note, 10)}),
    LayoutOf({FilePath(root, note, 1), FilePath(subdir, note, 3)}) }

InitSeq ==
  /\ disk \in SaveLayouts
  /\ dirs = DirsOf(disk)
  /\ page = [i \in PageIds |-> NoPage]
  /\ ret = NoRet
  /\ nsaves = 0
  /\ db = NoDb

NextSeq ==
  \/ \E url \in Urls(disk) : Get(1, url)
  \/ \E url \in Urls(disk) : GetBare(1, url)
  \/ \E t \in Titles, b \in Bodies, g \in TagStrings : Edit(1, t, b, g)
  \/ Save(1)

\* one caller: each save runs to its end before the next one starts
SpecSeq == InitSeq /\ [][NextSeq]_vars

ConcurrentLayouts ==
  { LayoutOf({}), LayoutOf({FilePath(root, note, 1)}) }

Init ==
  /\ disk \in ConcurrentLayouts
  /\ dirs = DirsOf(disk)
  /\ page = [i \in PageIds |-> NoPage]
  /\ ret = NoRet
  /\ nsaves = 0
  /\ db = NoDb

Next ==
  \/ \E i \in PageIds, url \in Urls(disk) : Get(i, url)
  \/ \E i \in PageIds, url \in Urls(disk) : GetBare(i, url)
  \/ \E i \in PageIds, t \in Titles, b \in Bodies, g \in TagStrings : Edit(i, t, b, g)
  \/ \E i \in PageIds : SaveScan(i)
  \/ \E i \in PageIds : SaveWrite(i)

\* uncoordinated callers: the steps of their saves interleave
Spec == Init /\ [][Next]_vars

(***************************************************************************)
(* Round trip: a bare page with drawn metadata and body is saved, and a    *)
(* second Page object is constructed from the path it was saved to.        *)
(***************************************************************************)
title == <<"t", "i", "t", "l", "e">>
tags == <<"t", "a", "g", "s">>

RoundTripValues == SeqsUpTo({"a", " ", LF}, MaxValueLen)

RoundTripBodies == SeqsUpTo({"b", LF, CR}, MaxBodyLen)

\* one entry, or title and tags in either order
RoundTripMetas ==
  {<< <<k, v>> >> : k \in {title, tags}, v \in RoundTripValues}
    \cup {<< <<title, v>>, <<tags, <<"a">> >> >> : v \in RoundTripValues}
    \cup {<< <<tags, v>>, <<title, <<"a">> >> >> : v \in RoundTripValues}

\* Page(page[i].path, page[i].url) held by caller j; a constructor that
\* raises leaves caller j as it was
Reopen(j, i) ==
  LET r == LoadedPage(page[i].path, page[i].url, disk)
  IN  /\ i # j
      /\ page[i].state = "live"
      /\ page[i].pc = "idle"
      /\ ret.op = "save"
      /\ page' = [page EXCEPT ![j] = IF r.err = "none" THEN r.pg ELSE @]
      /\ ret' = [op |-> "Page", path |-> page[i].path, pages |-> <<>>,
                 val |-> <<>>, err |-> r.err]
      /\ UNCHANGED <<disk, dirs, nsaves, db>>

InitRoundTrip ==
  /\ disk = <<>>
  /\ dirs = {root}
  /\ \E m \in RoundTripMetas, b \in RoundTripBodies :
       page = [i \in PageIds |->
                 IF i = 1
                 THEN [BarePage(wiki_path(root, note), note)
                         EXCEPT !.meta = m, !.body = b, !.hasbody = TRUE]
                 ELSE NoPage]
  /\ ret = NoRet
  /\ nsaves = 0
  /\ db = NoDb

NextRoundTrip ==
  \/ Save(1)
  \/ Reopen(2, 1)

SpecRoundTrip == InitRoundTrip /\ [][NextRoundTrip]_vars

(***************************************************************************)
(* Paths without extension: content trees that hold files whose name has   *)
(* no '.', a caller that constructs a Page from a path directly (as the    *)
(* test cases do), and the calls that take such a path.                    *)
(***************************************************************************)
\* <dir>/<stem> for version 0, <dir>/<stem>_v<version> otherwise
BarePath(dir, stem, version) ==
  IF version = 0 THEN dir \o <<"/">> \o stem
  ELSE dir \o <<"/">> \o stem \o <<"_", "v">> \o str(version)

NoExtUniverse ==
  << BarePath(root, note, 0), BarePath(root, note, 1),
     FilePath(root, note, 0), FilePath(root, note, 1) >>

NoExtLayouts ==
  LET layout(S) ==
        LET chosen == SelectSeq(NoExtUniverse, LAMBDA p : p \in S)
        IN  [k \in 1..Len(chosen) |-> [path |-> chosen[k], content |-> DefaultContent]]
  IN  {layout(S) : S \in {T \in SUBSET {NoExtUniverse[k] : k \in 1..Len(NoExtUniverse)} :
                            Cardinality(T) <= MaxFiles}}

\* Page(path, url) by a caller that holds no page yet
Open(i, path, url) ==
  LET r == LoadedPage(path, url, disk)
  IN  /\ page[i].state = "none"
      /\ ret.op = "none"
      /\ r.err = "none"
      /\ page' = [page EXCEPT ![i] = r.pg]
      /\ ret' = NoRet
      /\ UNCHANGED <<disk, dirs, nsaves, db>>

InitNoExt ==
  /\ disk \in NoExtLayouts
  /\ dirs = DirsOf(disk)
  /\ page = [i \in PageIds |-> NoPage]
  /\ ret = NoRet
  /\ nsaves = 0
  /\ db = NoDb

NextNoExt ==
  \/ /\ ret.op = "none"
     /\ \E p \in Paths(disk) : CallHighest(p)
  \/ /\ ret.op = "none"
     /\ \E p \in Paths(disk), pages \in SeqsUpTo(PagePool(disk), MaxPages) :
          CallVersions(p, pages)
  \/ \E p \in Paths(disk) : Open(1, p, note)
  \/ Save(1)

SpecNoExt == InitNoExt /\ [][NextNoExt]_vars

(***************************************************************************)
(* Wiki: index, tag groups and search over the pages of the content tree.  *)
(***************************************************************************)
\* the characters of the model in code point order
Alphabet ==
  <<LF, CR, " ", ",", "-", ".", "/", "0", "1", "2", "3", "4", "5", "6", "7", "8",
    "9", ":", "T", "\\", "_", "a", "b", "c", "d", "e", "f", "g", "h", "i", "j",
    "k", "l", "m", "n", "o", "p", "q", "r", "s", "t", "u", "v", "w", "x", "y", "z">>

Ord(c) == CHOOSE k \in 1..Len(Alphabet) : Alphabet[k] = c

RECURSIVE StrLessEq(_, _)
\* s <= t for strings
StrLessEq(s, t) ==
  IF s = <<>> THEN TRUE
  ELSE IF t = <<>> THEN FALSE
  ELSE IF s[1] = t[1] THEN StrLessEq(Tail(s), Tail(t))
  ELSE Ord(s[1]) < Ord(t[1])

RECURSIVE CollapseSpaces(_)
\* re.sub('[ ]{2,}', ' ', url)
CollapseSpaces(s) ==
  IF Len(s) < 2 THEN s
  ELSE IF s[1] = " " /\ s[2] = " " THEN CollapseSpaces(Tail(s))
  ELSE <<s[1]>> \o CollapseSpaces(Tail(s))

clean_url(url) ==
  LET u1 == strip(CollapseSpaces(url))
      u2 == replace(lower(u1), <<" ">>, <<"_">>)
  IN  replace(replace(u2, <<"\\", "\\">>, <<"/">>), <<"\\">>, <<"/">>)

\* s.endswith(t)
endswith(s, t) == Len(s) >= Len(t) /\ StartsAt(s, Len(s) - Len(t) + 1, t)

\* Page.title: the title entry, the url when there is none
page_title(pg) == IF HasKey(pg.meta, title) THEN Lookup(pg.meta, title) ELSE pg.url

\* Page.tags: the tags entry, '' when there is none
page_tags(pg) == IF HasKey(pg.meta, tags) THEN Lookup(pg.meta, tags) ELSE <<>>

\* the url Wiki.index gives the file at path
index_url(wroot, path) ==
  LET cur_dir == get_path_without_filename(path)
      cur_file == get_filename_from_path(path)
      cur_dir_url == SubSeq(cur_dir, Len(wroot) + 2, Len(cur_dir))
      name == SubSeq(cur_file, 1, Len(cur_file) - 3)
  IN  clean_url(IF cur_dir_url = <<>> THEN name ELSE cur_dir_url \o <<"/">> \o name)

RECURSIVE SortedInsert(_, _)
\* pg placed behind every page whose key is not greater than its own
SortedInsert(sorted, pg) ==
  IF sorted = <<>> THEN <<pg>>
  ELSE IF StrLessEq(lower(page_title(Head(sorted))), lower(page_title(pg)))
  THEN <<Head(sorted)>> \o SortedInsert(Tail(sorted), pg)
  ELSE <<pg>> \o sorted

RECURSIVE SortByTitle(_, _)
\* sorted(pages, key=lambda x: x.title.lower()): a stable sort
SortByTitle(pages, sorted) ==
  IF pages = <<>> THEN sorted
  ELSE SortByTitle(Tail(pages), SortedInsert(sorted, Head(pages)))

\* the end of Wiki.index over the Page constructions in os.walk order: the
\* exception of the first that fails, else the pages sorted
IndexOfLoaded(loaded) ==
  LET failed == {k \in 1..Len(loaded) : loaded[k].err # "none"}
  IN  IF failed # {}
      THEN [err |-> loaded[CHOOSE k \in failed : \A j \in failed : k <= j].err,
            pages |-> <<>>]
      ELSE [err |-> "none",
            pages |-> SortByTitle([k \in 1..Len(loaded) |-> loaded[k].pg], <<>>)]

\* Wiki.index: a Page for every '.md' file met by os.walk(root), sorted by
\* lower-case title; err names the exception of a Page that fails to load
index(wroot, d, ds) ==
  LET here  == SelectSeq(d, LAMBDA e : get_path_without_filename(e.path) = wroot)
      below == SelectSeq(d, LAMBDA e : IsBelow(get_path_without_filename(e.path), wroot))
      files == SelectSeq(here \o below,
                         LAMBDA e : endswith(get_filename_from_path(e.path), <<".">> \o md))
  IN  IndexOfLoaded([k \in 1..Len(files) |->
                      LoadedPage(files[k].path, index_url(wroot, files[k].path), d)])

RECURSIVE TagsOfPage(_, _, _)
\* the inner loop of get_tags over the pieces of one page's tags string
TagsOfPage(pagetags, pg, tagmap) ==
  IF pagetags = <<>> THEN tagmap
  ELSE LET tag == strip(Head(pagetags))
       IN  TagsOfPage(Tail(pagetags), pg,
                      IF tag = <<>> THEN tagmap
                      ELSE IF HasKey(tagmap, tag)
                      THEN SetItem(tagmap, tag, Append(Lookup(tagmap, tag), pg))
                      ELSE Append(tagmap, <<tag, <<pg>> >>))

RECURSIVE TagsOfPages(_, _)
TagsOfPages(pages, tagmap) ==
  IF pages = <<>> THEN tagmap
  ELSE TagsOfPages(Tail(pages),
                   TagsOfPage(split(page_tags(Head(pages)), <<",">>), Head(pages), tagmap))

\* the loops of get_tags over the result of self.index()
TagsOfIndex(pages) ==
  [err |-> pages.err,
   val |-> IF pages.err = "none" THEN TagsOfPages(pages.pages, <<>>) ELSE <<>>]

\* Wiki.get_tags: tag -> list of pages, as an ordered mapping
get_tags(wroot, d, ds) == TagsOfIndex(index(wroot, d, ds))

\* tag in page.tags: the tag occurs in the tags string
TagInTags(tag, pg) == tag = <<>> \/ find(page_tags(pg), tag) # 0

\* the loop of index_by_tag over the result of self.index() and the sort
TaggedOfIndex(pages, tag) ==
  [err |-> pages.err,
   val |-> IF pages.err = "none"
           THEN SortByTitle(SelectSeq(pages.pages, LAMBDA pg : TagInTags(tag, pg)), <<>>)
           ELSE <<>>]

\* Wiki.index_by_tag
index_by_tag(wroot, tag, d, ds) == TaggedOfIndex(index(wroot, d, ds), tag)

\* regex.search(text) for a pattern of literal characters
regex_search(term, ignore_case, text) ==
  IF term = <<>> THEN TRUE
  ELSE IF ignore_case THEN find(lower(text), lower(term)) # 0
  ELSE find(text, term) # 0

\* getattr(page, attr)
getattr(pg, attr) ==
  IF attr = "title" THEN page_title(pg)
  ELSE IF attr = "tags" THEN page_tags(pg)
  ELSE pg.body

RECURSIVE AttrsMatch(_, _, _, _)
\* the inner loop of search: the attributes in order up to the first match
AttrsMatch(attrs, term, ignore_case, pg) ==
  IF attrs = <<>> THEN FALSE
  ELSE IF regex_search(term, ignore_case, getattr(pg, Head(attrs))) THEN TRUE
  ELSE AttrsMatch(Tail(attrs), term, ignore_case, pg)

DefaultAttrs == <<"title", "tags", "body">>

RECURSIVE MatchesOfPages(_, _, _, _)
\* every page once for each attribute that matches, as the loops of search
\* give without the break
MatchesOfPages(pages, attrs, term, ignore_case) ==
  IF pages = <<>> THEN <<>>
  ELSE LET hits == SelectSeq(attrs, LAMBDA attr :
                               regex_search(term, ignore_case, getattr(Head(pages), attr)))
       IN  [k \in 1..Len(hits) |-> Head(pages)]
             \o MatchesOfPages(Tail(pages), attrs, term, ignore_case)

MatchesOfIndex(pages, attrs, term, ignore_case) ==
  [err |-> pages.err,
   val |-> IF pages.err = "none"
           THEN MatchesOfPages(pages.pages, attrs, term, ignore_case)
           ELSE <<>>]

search_no_break(wroot, term, ignore_case, attrs, d, ds) ==
  MatchesOfIndex(index(wroot, d, ds), attrs, term, ignore_case)

\* the loops of search over the result of self.index(): the pages with a
\* matching attribute, each once
SearchOfIndex(pages, attrs, term, ignore_case) ==
  [err |-> pages.err,
   val |-> IF pages.err = "none"
           THEN SelectSeq(pages.pages,
                          LAMBDA pg : AttrsMatch(attrs, term, ignore_case, pg))
           ELSE <<>>]

\* Wiki.search
search(wroot, term, ignore_case, attrs, d, ds) ==
  SearchOfIndex(index(wroot, d, ds), attrs, term, ignore_case)

\* the texts of the pages of a wiki: header lines title and tags, a blank
\* line, the body
PageText(ti, tg, bo) ==
  title \o <<":", " ">> \o ti \o <<LF>> \o tags \o <<":", " ">> \o tg \o <<LF, LF>> \o bo

WikiTexts ==
  { PageText(<<"a">>, <<"a", ",", " ", "b">>, <<"b">>),
    PageText(<<"t">>, <<"b", ",", " ", "c">>, <<"b">>),
    PageText(<<"T">>, <<"a", ",", ",", " ", "a">>, <<"c">>),
    PageText(<<"c">>, <<>>, <<"t">>),
    PageText(<<"b">>, <<"a", "b">>, <<"a">>) }

WikiFiles ==
  << root \o <<"/", "p", "1", ".">> \o md,
     root \o <<"/", "p", "2", ".">> \o md,
     subdir \o <<"/", "p", "3", ".">> \o md,
     root \o <<"/", "p", "4", ".", "t", "x", "t">> >>

\* content trees of at most MaxFiles of the wiki files, each with one of
\* the texts
WikiLayouts ==
  UNION { { [k \in 1..Len(chosen) |-> [path |-> chosen[k], content |-> texts[k]]] :
              texts \in [1..Len(chosen) -> WikiTexts] } :
          chosen \in { SelectSeq(WikiFiles, LAMBDA p : p \in S) :
                         S \in {T \in SUBSET {WikiFiles[k] : k \in 1..Len(WikiFiles)} :
                                  Cardinality(T) <= MaxFiles} } }

SearchTerms == {<<"a">>, <<"t">>, <<"c">>}

\* the tags asked of index_by_tag
TagArgs == {<<"a">>, <<"b">>, <<"c">>, <<"a", "b">>}

\* what a call of a Wiki method leaves with its caller
WikiRet(op, term, flags, r) ==
  [op |-> op, path |-> term, pages |-> flags, val |-> r.val, err |-> r.err]

\* the pages of index() as the value of the call
IndexVal(r) == [err |-> r.err, val |-> r.pages]

CallIndex ==
  /\ ret.op = "none"
  /\ ret' = WikiRet("index", <<>>, <<>>, IndexVal(index(root, disk, dirs)))
  /\ UNCHANGED <<disk, dirs, page, nsaves, db>>

CallGetTags ==
  /\ ret.op = "none"
  /\ ret' = WikiRet("get_tags", <<>>, <<>>, get_tags(root, disk, dirs))
  /\ UNCHANGED <<disk, dirs, page, nsaves, db>>

\* Wiki.search(term, ignore_case); path records the term, pages the flag
CallSearch(term, ignore_case) ==
  /\ ret.op = "none"
  /\ ret' = WikiRet("search", term, <<ignore_case>>,
                    search(root, term, ignore_case, DefaultAttrs, disk, dirs))
  /\ UNCHANGED <<disk, dirs, page, nsaves, db>>

\* Wiki.index_by_tag(tag); path records the tag
CallIndexByTag(tag) ==
  /\ ret.op = "none"
  /\ ret' = WikiRet("index_by_tag", tag, <<>>, index_by_tag(root, tag, disk, dirs))
  /\ UNCHANGED <<disk, dirs, page, nsaves, db>>

InitWiki ==
  /\ disk \in WikiLayouts
  /\ dirs = DirsOf(disk)
  /\ page = [i \in PageIds |-> NoPage]
  /\ ret = NoRet
  /\ nsaves = 0
  /\ db = NoDb

NextWiki ==
  \/ CallIndex
  \/ CallGetTags
  \/ \E term \in SearchTerms, ignore_case \in BOOLEAN : CallSearch(term, ignore_case)
  \/ \E tag \in TagArgs : CallIndexByTag(tag)

SpecWiki == InitWiki /\ [][NextWiki]_vars

(***************************************************************************)
(* Database (wiki/Database.py): the tables pages and tags behind one       *)
(* connection.  db.pages is the sequence of rows in rowid order, db.seq    *)
(* the AUTOINCREMENT counter, db.tags the names of the tags table in       *)
(* rowid order.  Column values are atoms; an SQL text is the sequence of   *)
(* the pieces that the code concatenates.                                  *)
(***************************************************************************)
None == "None"

\* a search criterion: its SQL text, and the column and value it compares
Criteria ==
  { [text |-> "title = 't'", col |-> "title", value |-> "t"],
    [text |-> "name = 'n'", col |-> "name", value |-> "n"] }

\* search_criteria=None
NoCriterion == [text |-> None, col |-> None, value |-> None]

\* the rows of a table that satisfy a criterion (all of them without one)
RowMatches(row, criterion) ==
  criterion.col = None \/ row[criterion.col] = criterion.value

CriterionText(criterion) == criterion.text

\* INSERT INTO pages VALUES (null,?,?,?): NOT NULL columns reject None
insert_page(d, name, title_, body) ==
  IF None \in {name, title_, body}
  THEN [err |-> "IntegrityError", db |-> d]
  ELSE [err |-> "none",
        db |-> [d EXCEPT !.pages = Append(@, [id |-> d.seq + 1, name |-> name,
                                              title |-> title_, body |-> body]),
                         !.seq = d.seq + 1]]

\* INSERT INTO tags VALUES (?) without a uniqueness check of the key
insert_tag_no_key(d, name) ==
  IF name = None
  THEN [err |-> "IntegrityError", db |-> d]
  ELSE [err |-> "none", db |-> [d EXCEPT !.tags = Append(@, name)]]

\* INSERT INTO tags VALUES (?): name is TEXT PRIMARY KEY NOT NULL
insert_tag(d, name) ==
  IF name = None \/ \E k \in 1..Len(d.tags) : d.tags[k] = name
  THEN [err |-> "IntegrityError", db |-> d]
  ELSE [err |-> "none", db |-> [d EXCEPT !.tags = Append(@, name)]]

\* the query text of find_rows; the execution of the query is commented
\* out in the code
find_rows(select_columns, table_name, count, search_criteria, order_by, row_limit, offset, group_by, having_criteria) ==
  (IF count = FALSE
   THEN <<"SELECT ", select_columns, " FROM ", table_name>>
   ELSE <<"SELECT COUNT(", select_columns, ") FROM ", table_name>>)
    \o (IF search_criteria # None THEN <<" WHERE ", search_criteria>> ELSE <<>>)
    \o (IF order_by # None THEN <<" ORDER BY ", order_by>> ELSE <<>>)
    \o (IF row_limit # 0 THEN <<" LIMIT ", str(row_limit)>> ELSE <<>>)
    \o (IF offset # 0 THEN <<" OFFSET ", str(offset)>> ELSE <<>>)
    \o (IF group_by # None THEN <<" GROUP BY ", group_by>> ELSE <<>>)
    \o (IF having_criteria # None THEN <<" HAVING ", having_criteria>> ELSE <<>>)

RECURSIVE SetClauses(_, _, _)
\* ", col = 'value'" for the columns from the i-th on
SetClauses(change_cols, change_values, i) ==
  IF i > Len(change_cols) THEN <<>>
  ELSE <<", ", change_cols[i], " = '", change_values[i], "'">>
         \o SetClauses(change_cols, change_values, i + 1)

\* the query text of update_table; the execution of the query is commented
\* out in the code
update_table(table_name, change_cols, change_values, search_criteria, order_by, row_limit, offset) ==
  <<"UPDATE ", table_name, " SET ", change_cols[1], " = '", change_values[1], "'">>
    \o SetClauses(change_cols, change_values, 2)
    \o (IF search_criteria # None THEN <<" WHERE ", search_criteria>> ELSE <<>>)
    \o (IF order_by # None THEN <<" ORDER BY ", order_by>> ELSE <<>>)
    \o (IF row_limit # 0 THEN <<" LIMIT ", str(row_limit)>> ELSE <<>>)
    \o (IF offset # 0 THEN <<" OFFSET ", str(offset)>> ELSE <<>>)

\* DELETE FROM pages [WHERE criterion]; the AUTOINCREMENT counter stays
delete_row(d, criterion) ==
  [d EXCEPT !.pages = SelectSeq(@, LAMBDA row : ~RowMatches(row, criterion))]

\* what a Database call gives its caller: a list of rows, a query text, or
\* nothing
RowList(rows) == [type |-> "list", items |-> rows]
QueryText(pieces) == [type |-> "str", items |-> pieces]
Nothing == [type |-> "None", items |-> <<>>]

\* the arguments of a Database call, None for those the call does not take
NoArgs == [name |-> None, title |-> None, body |-> None, select_columns |-> None,
           count |-> FALSE, change_cols |-> <<>>, change_values |-> <<>>,
           criterion |-> NoCriterion]

\* the calls catch sqlite3.Error and print it: err is what reaches the
\* caller, pages what was printed, path the arguments of the call
DbRet(op, args, val, printed) ==
  [op |-> op, path |-> args, pages |-> printed, val |-> val, err |-> "none"]

Printed(err) == IF err = "none" THEN <<>> ELSE <<err>>

PageNames == {"n"}
PageTitles == {"t", "u"}
PageBodies == {"b"}
TagNames == {"a", "b", "c"}

InsertPage(name, title_, body) ==
  LET r == insert_page(db, name, title_, body)
  IN  /\ db.seq < MaxRows
      /\ db' = r.db
      /\ ret' = DbRet("insert_page",
                       [NoArgs EXCEPT !.name = name, !.title = title_, !.body = body],
                       Nothing, Printed(r.err))
      /\ UNCHANGED <<disk, dirs, page, nsaves>>

InsertTag(name) ==
  LET r == insert_tag(db, name)
  IN  /\ db' = r.db
      /\ ret' = DbRet("insert_tag", [NoArgs EXCEPT !.name = name],
                       Nothing, Printed(r.err))
      /\ UNCHANGED <<disk, dirs, page, nsaves>>

FindRows(select_columns, count, criterion) ==
  /\ ret' = DbRet("find_rows",
                  [NoArgs EXCEPT !.select_columns = select_columns,
                                 !.count = count, !.criterion = criterion],
                  QueryText(find_rows(select_columns, "pages", count,
                                      CriterionText(criterion), None, 0, 0, None, None)),
                  <<>>)
  /\ UNCHANGED <<disk, dirs, page, nsaves, db>>

UpdateTable(change_cols, change_values, criterion) ==
  /\ ret' = DbRet("update_table",
                  [NoArgs EXCEPT !.change_cols = change_cols,
                                 !.change_values = change_values,
                                 !.criterion = criterion],
                  QueryText(update_table("pages", change_cols, change_values,
                                         CriterionText(criterion), None, 0, 0)),
                  <<>>)
  /\ UNCHANGED <<disk, dirs, page, nsaves, db>>

DeleteRow(criterion) ==
  /\ db.pages # <<>>
  /\ db' = delete_row(db, criterion)
  /\ ret' = DbRet("delete_row", [NoArgs EXCEPT !.criterion = criterion], Nothing, <<>>)
  /\ UNCHANGED <<disk, dirs, page, nsaves>>

InitDb ==
  /\ disk = <<>>
  /\ dirs = {root}
  /\ page = [i \in PageIds |-> NoPage]
  /\ ret = DbRet("none", NoArgs, Nothing, <<>>)
  /\ nsaves = 0
  /\ db = NoDb

NextDb ==
  \/ \E name \in PageNames, title_ \in PageTitles, body \in PageBodies :
       InsertPage(name, title_, body)
  \/ \E name \in TagNames \cup {None} : InsertTag(name)
  \/ \E count \in BOOLEAN, criterion \in Criteria \cup {NoCriterion} :
       FindRows("*", count, criterion)
  \/ \E criterion \in Criteria \cup {NoCriterion} :
       UpdateTable(<<"name">>, <<"m">>, criterion)
  \/ \E criterion \in Criteria : UpdateTable(<<"name", "title">>, <<"m", "u">>, criterion)
  \/ \E criterion \in Criteria \cup {NoCriterion} : DeleteRow(criterion)

SpecDb == InitDb /\ [][NextDb]_vars

(***************************************************************************)
(* Wiki.move: the check of the target against the content root and the     *)
(* rename.  The files of disk are named by their normalised paths; the     *)
(* new urls drawn hold '..' only directly behind the root, which exists.   *)
(***************************************************************************)
\* os.path.join(a, b)
path_join(a, b) ==
  IF b # <<>> /\ b[1] = "/" THEN b
  ELSE IF a = <<>> \/ a[Len(a)] = "/" THEN a \o b
  ELSE a \o <<"/">> \o b

RECURSIVE NormComps(_, _, _)
\* the loop of posixpath.normpath over the components of the path
NormComps(comps, new_comps, initial_slash) ==
  IF comps = <<>> THEN new_comps
  ELSE LET comp == Head(comps)
       IN  IF comp = <<>> \/ comp = <<".">>
           THEN NormComps(Tail(comps), new_comps, initial_slash)
           ELSE IF \/ comp # <<".", ".">>
                   \/ (~initial_slash /\ new_comps = <<>>)
                   \/ (new_comps # <<>> /\ new_comps[Len(new_comps)] = <<".", ".">>)
           THEN NormComps(Tail(comps), Append(new_comps, comp), initial_slash)
           ELSE IF new_comps # <<>>
           THEN NormComps(Tail(comps), SubSeq(new_comps, 1, Len(new_comps) - 1),
                          initial_slash)
           ELSE NormComps(Tail(comps), new_comps, initial_slash)

\* os.path.normpath(path)
normpath(path) ==
  LET initial_slash == path # <<>> /\ path[1] = "/"
      joined == join(NormComps(split(path, <<"/">>), <<>>, initial_slash), <<"/">>)
      normed == IF initial_slash THEN <<"/">> \o joined ELSE joined
  IN  IF normed = <<>> THEN <<".">> ELSE normed

RECURSIVE commonprefix(_, _)
\* os.path.commonprefix((s, t)): the longest common leading run of characters
commonprefix(s, t) ==
  IF s = <<>> \/ t = <<>> \/ s[1] # t[1] THEN <<>>
  ELSE <<s[1]>> \o commonprefix(Tail(s), Tail(t))

\* os.rename(source, target) on a POSIX file system: the file takes the
\* target's name and replaces a file that has it
rename(source, target, d) ==
  LET kept == SelectSeq(d, LAMBDA e : e.path # source /\ e.path # target)
  IN  Append(kept, [path |-> target, content |-> ReadFile(source, d)])

\* the outcome of Wiki.move for a checked target: the directories and the
\* files it leaves
MoveChecked(common, wroot, source, target, d, ds) ==
  IF Len(common) < Len(normpath(wroot))
  THEN [err |-> "RuntimeError", disk |-> d, dirs |-> ds]
  ELSE IF source \notin Paths(d)
  THEN [err |-> "FileNotFoundError", disk |-> d,
        dirs |-> makedirs(normpath(get_path_without_filename(target)), ds)]
  ELSE [err |-> "none", disk |-> rename(source, normpath(target), d),
        dirs |-> makedirs(normpath(get_path_without_filename(target)), ds)]

\* the target of Wiki.move(url, newurl)
move_target(wroot, newurl) == path_join(wroot, newurl) \o <<"_", "v", "1", ".">> \o md

\* Wiki.move(url, newurl)
move(wroot, url, newurl, d, ds) ==
  MoveChecked(commonprefix(normpath(wroot), normpath(move_target(wroot, newurl))),
              wroot, path_join(wroot, url) \o <<".">> \o md,
              move_target(wroot, newurl), d, ds)

\* the new urls of the moves: inside the root, through '..' back into the
\* root, through '..' to a directory beside the root, and an absolute one
NewUrls ==
  { <<"x">>, <<"s", "/", "x">>, <<".", ".", "/", "d", "/", "x">>,
    <<".", ".", "/", "d", "2", "/", "x">>, <<".", ".", "/", "e", "/", "x">>,
    <<"/", "x">> }

MoveRet(newurl, r) ==
  [op |-> "move", path |-> newurl, pages |-> <<>>, val |-> <<>>, err |-> r.err]

MoveResult(newurl, r) ==
  /\ ret' = MoveRet(newurl, r)
  /\ disk' = r.disk
  /\ dirs' = r.dirs

Move(url, newurl) ==
  /\ ret.op = "none"
  /\ MoveResult(newurl, move(root, url, newurl, disk, dirs))
  /\ UNCHANGED <<page, nsaves, db>>

InitMove ==
  /\ disk \in Layouts
  /\ dirs = DirsOf(disk)
  /\ page = [i \in PageIds |-> NoPage]
  /\ ret = NoRet
  /\ nsaves = 0
  /\ db = NoDb

NextMove == \E url \in Urls(disk), newurl \in NewUrls : Move(url, newurl)

SpecMove == InitMove /\ [][NextMove]_vars

(***************************************************************************)
(* Vocabulary of the properties: stem, version number and version family   *)
(* of a path, as the file naming convention defines them.                  *)
(***************************************************************************)
Stem(p) == split_filename_from_extension(get_filename_from_path(p))[1]

Ext(p) == split_filename_from_extension(get_filename_from_path(p))[2]

UnversionedStem(p) == get_filename_without_version(Stem(p))

HasVersionSuffix(p) == UnversionedStem(p) # Stem(p)

\* the N of <stem>_v<N>, 0 without a suffix
VersionNumber(p) ==
  IF HasVersionSuffix(p)
  THEN int(SubSeq(Stem(p), Len(UnversionedStem(p)) + 3, Len(Stem(p))))
  ELSE 0

SameFamily(p, q) ==
  /\ get_path_without_filename(p) = get_path_without_filename(q)
  /\ UnversionedStem(p) = UnversionedStem(q)
  /\ Ext(p) = Ext(q)

Family(p, d) == {q \in Paths(d) : SameFamily(p, q)}

IsGreatest(p, d) == \A q \in Family(p, d) : VersionNumber(q) <= VersionNumber(p)

\* the filename of p contains no '.'
NoDotInFilename(p) ==
  LET f == get_filename_from_path(p)
  IN  \A k \in 1..Len(f) : f[k] # "."

\* the tags of a page: the trimmed, non-empty pieces of its tags string
TagSet(pg) ==
  LET pieces == split(page_tags(pg), <<",">>)
  IN  {strip(pieces[k]) : k \in 1..Len(pieces)} \ {<<>>}

RECURSIVE IsSubsequence(_, _)
\* out is in without some of its elements, the rest in the same order
IsSubsequence(out, in) ==
  IF out = <<>> THEN TRUE
  ELSE IF in = <<>> THEN FALSE
  ELSE IF Head(out) = Head(in) THEN IsSubsequence(Tail(out), Tail(in))
  ELSE IsSubsequence(out, Tail(in))

(***************************************************************************)
(* Properties of the static collection functions (SpecQuery).              *)
(***************************************************************************)
\* C1: in a family that contains versions n1 < n2, multi-digit ones such as
\* 9 and 10 included, get_highest_version_of_file_path on the path of any
\* member returns the path of the member with the greatest version number.
C1_HighestIsGreatestMember ==
  (/\ ret.op = "get_highest_version_of_file_path"
   /\ \E q1, q2 \in Family(ret.path, disk) :
         0 < VersionNumber(q1) /\ VersionNumber(q1) < VersionNumber(q2))
  => (ret.val \in Family(ret.path, disk) /\ IsGreatest(ret.val, disk))

\* C5: filter_old_versions keeps a page if and only if it is the
\* highest-numbered version of its family.
C5_FilterKeepsExactlyHighest ==
  ret.op = "filter_old_versions"
  => \A k \in 1..Len(ret.pages) :
       InList(ret.pages[k], ret.val) <=> IsGreatest(ret.pages[k].path, disk)

\* C6: get_versions returns exactly the pages of the list that belong to the
\* family of the path, and the same result for the path of every member.
C6_VersionsAreTheFamily ==
  ret.op = "get_versions"
  => /\ {ret.val[k] : k \in 1..Len(ret.val)}
          = {ret.pages[k] : k \in {j \in 1..Len(ret.pages) :
                                     ret.pages[j].path \in Family(ret.path, disk)}}
     /\ \A q \in Family(ret.path, disk) :
          get_versions(q, ret.pages, disk, dirs) = ret.val

\* C9: for a file without version suffix whose directory holds no versioned
\* sibling of its stem, get_highest_version_of_file_path returns the path
\* unchanged.
C9_UnversionedAloneIsItself ==
  (/\ ret.op = "get_highest_version_of_file_path"
   /\ ~HasVersionSuffix(ret.path)
   /\ \A q \in Family(ret.path, disk) : ~HasVersionSuffix(q))
  => ret.val = ret.path

NoteScenario ==
  /\ Paths(disk) = {FilePath(root, note, 1), FilePath(root, note, 2), FilePath(root, other, 0)}
  /\ ret.op = "filter_old_versions"
  /\ [k \in 1..Len(ret.pages) |-> ret.pages[k].path]
       = <<FilePath(root, note, 1), FilePath(root, note, 2), FilePath(root, other, 0)>>

\* C10: filter_old_versions returns a subsequence of its input (kept pages
\* in their input order, nothing from outside the input); with note_v1.md,
\* note_v2.md and other.md on disk, [note_v1, note_v2, other] gives
\* [note_v2, other].
C10_FilterIsSubsequence ==
  ret.op = "filter_old_versions"
  => /\ IsSubsequence(ret.val, ret.pages)
     /\ NoteScenario => ret.val = <<ret.pages[2], ret.pages[3]>>

\* the scenario of C10 has been filtered, and two pages were kept
C10_Witness ==
  /\ NoteScenario
  /\ Len(ret.val) = 2

(***************************************************************************)
(* Properties of saves in sequence (SpecSeq).                              *)
(***************************************************************************)
RECURSIVE MaxVersion(_)
\* the greatest version number among a set of paths, 0 for the empty set
MaxVersion(S) ==
  IF S = {} THEN 0
  ELSE LET q == CHOOSE x \in S : TRUE
           m == MaxVersion(S \ {q})
       IN  IF VersionNumber(q) > m THEN VersionNumber(q) ELSE m

\* the file a save of a page at path p is to write on tree d
NextVersionPath(p, d) ==
  VersionedPath(get_path_without_filename(p), UnversionedStem(p),
                MaxVersion(Family(p, d)) + 1, Ext(p))

\* C2: a save of a page whose path belongs to a family with highest version
\* n (0 when no versioned file exists) writes <unversioned stem>_v<n+1>.<ext>
\* in the same directory and sets page.path to it.
C2_SaveWritesNextVersion ==
  [][\A i \in PageIds :
       (Save(i) /\ ret'.err = "none")
       => /\ page'[i].path = NextVersionPath(page[i].path, disk)
          /\ page'[i].path \in Paths(disk')]_vars

\* C3: a save never modifies or removes a file that existed before the call.
C3_SaveKeepsExistingFiles ==
  [][(ret'.op = "save" /\ ret'.err = "none")
     => \A p \in Paths(disk) :
          p \in Paths(disk') /\ ReadFile(p, disk') = ReadFile(p, disk)]_vars

\* C4: after saves in sequence every non-empty family has exactly one
\* current member (a file p with get_highest_version_of_file_path(p) = p),
\* and it is the member with the maximum version number.
C4_OneCurrentMemberPerFamily ==
  (ret.op = "save" /\ ret.err = "none")
  => \A p \in Paths(disk) :
       LET current == {q \in Family(p, disk) :
                         get_highest_version_of_file_path(q, disk, dirs) = q}
       IN  /\ Cardinality(current) = 1
           /\ \A q \in current : IsGreatest(q, disk)

(***************************************************************************)
(* Properties of uncoordinated callers (Spec).                             *)
(***************************************************************************)
\* both callers are between the scan and the write of a save
BothScanned(i, j) ==
  /\ i # j
  /\ page[i].pc = "scanned"
  /\ page[j].pc = "scanned"

\* C7: nothing coordinates two callers that save pages of one family: when
\* both have scanned the same listing and neither has written yet, both
\* hold the same next version, whichever member each page was loaded from.
C7_RacingSavesShareVersion ==
  \A i, j \in PageIds :
    (/\ BothScanned(i, j)
     /\ SameFamily(page[i].path, page[j].path)
     /\ page[i].all_versions = page[j].all_versions)
    => page[i].path = page[j].path

\* two callers have read the same highest version of one family, and the
\* file both are about to write does not exist yet
C7_Witness ==
  \E i, j \in PageIds :
    /\ BothScanned(i, j)
    /\ page[i].path = page[j].path
    /\ VersionNumber(page[i].path) = get_highest_version_number(page[i].all_versions) + 1
    /\ page[i].path \notin Paths(disk)

(***************************************************************************)
(* Properties of the round trip (SpecRoundTrip).                           *)
(***************************************************************************)
\* a new Page constructed from the path pg was saved to, on tree d
Reloaded(pg, d) == LoadedPage(pg.path, pg.url, d)

HeaderCarries(meta) ==
  /\ meta # <<>>
  /\ \A k \in 1..Len(meta) :
       /\ meta[k][1] # <<>>
       /\ \A c \in 1..Len(meta[k][1]) : meta[k][1][c] \in KeyChars \ {"T"}
       /\ \A c \in 1..Len(meta[k][2]) : meta[k][2][c] \notin {LF, CR}
       /\ \/ meta[k][2] = <<>>
          \/ (meta[k][2][1] \notin White /\ meta[k][2][Len(meta[k][2])] \notin White)

HasNoCR(s) == \A c \in 1..Len(s) : s[c] # CR

C11_NoExtensionIsAnError ==
  [][/\ (/\ ret'.op \in {"get_highest_version_of_file_path", "get_versions"}
         /\ NoDotInFilename(ret'.path))
        => (ret'.err = "IndexError" /\ ret'.val = <<>> /\ disk' = disk)
     /\ \A i \in PageIds :
          (Save(i) /\ NoDotInFilename(page[i].path))
          => /\ ret'.err = "IndexError"
             /\ disk' = disk
             /\ dirs' = dirs
             /\ page'[i].path = page[i].path]_vars

\* a page loaded from an existing file without extension has been saved,
\* and the save raised
C11_Witness ==
  /\ ret.op = "save"
  /\ ret.err = "IndexError"
  /\ page[1].state = "live"
  /\ page[1].hasbody
  /\ page[1].path \in Paths(disk)
  /\ NoDotInFilename(page[1].path)

(***************************************************************************)
(* Properties of the tag groups and of search (SpecWiki).                  *)
(***************************************************************************)
\* the pages of the tree are p1 tagged "a, b" and p2 tagged "b, c", indexed
\* in this order
TwoTaggedPages(idx) ==
  /\ Len(idx) = 2
  /\ page_tags(idx[1]) = <<"a", ",", " ", "b">>
  /\ page_tags(idx[2]) = <<"b", ",", " ", "c">>

MatchingAttrs(term, ignore_case, pg) ==
  {attr \in {"title", "tags", "body"} : regex_search(term, ignore_case, getattr(pg, attr))}

\* C13: search returns exactly the pages for which the pattern matches at
\* least one of title, tags and body, each of them once even when several
\* attributes match, in index order.
C13_SearchReturnsMatchingPages ==
  (ret.op = "search" /\ ret.err = "none")
  => LET idx == index(root, disk, dirs).pages
         term == ret.path
         ignore_case == ret.pages[1]
     IN  /\ ret.val = SelectSeq(idx, LAMBDA pg :
                                  MatchingAttrs(term, ignore_case, pg) # {})
         /\ \A k, j \in 1..Len(ret.val) : ret.val[k].path = ret.val[j].path => k = j

\* a search has returned a page that matches in two attributes and has left
\* out a page of the index
C13_Witness ==
  /\ ret.op = "search"
  /\ ret.err = "none"
  /\ Len(ret.val) < Len(index(root, disk, dirs).pages)
  /\ \E k \in 1..Len(ret.val) :
       Cardinality(MatchingAttrs(ret.path, ret.pages[1], ret.val[k])) >= 2

(***************************************************************************)
(* Properties of the Database calls (SpecDb).                              *)
(***************************************************************************)
\* C14: find_rows(columns, table, count=False, search_criteria) returns the
\* list of the rows of the table that satisfy search_criteria, so the length
\* of the result is the number of matching rows.
C14_FindRowsReturnsMatchingRows ==
  [][(ret'.op = "find_rows" /\ ret'.path.count = FALSE)
     => LET criterion == ret'.path.criterion
        IN  /\ ret'.val = RowList(SelectSeq(db.pages,
                                            LAMBDA row : RowMatches(row, criterion)))
            /\ Len(ret'.val.items)
                 = Cardinality({k \in 1..Len(db.pages) :
                                  RowMatches(db.pages[k], criterion)})]_vars

\* the row of the pages table with the given id holds value in column col
RowHolds(d, id, col, value) ==
  \E k \in 1..Len(d.pages) : d.pages[k].id = id /\ d.pages[k][col] = value

\* C15: after update_table(table, change_cols, change_values,
\* search_criteria) every row that matched search_criteria holds the new
\* values in the named columns.
C15_UpdateChangesMatchingRows ==
  [][ret'.op = "update_table"
     => \A k \in 1..Len(db.pages) :
          RowMatches(db.pages[k], ret'.path.criterion)
          => \A c \in 1..Len(ret'.path.change_cols) :
               RowHolds(db', db.pages[k].id,
                        ret'.path.change_cols[c], ret'.path.change_values[c])]_vars

\* the number of rows of the tags table that hold name
TagCount(d, name) == Cardinality({k \in 1..Len(d.tags) : d.tags[k] = name})

\* C16: insert_tag of a name that the tags table holds leaves the table as
\* it is and raises nothing to the caller; every insert_tag leaves the name
\* in the table once and keeps the names that were there, so a sequence of
\* inserts with repeats leaves each distinct name exactly once.
C16_InsertTagKeepsNamesUnique ==
  [][(ret'.op = "insert_tag" /\ ret'.path.name \in TagNames)
     => LET name == ret'.path.name
        IN  /\ ret'.err = "none"
            /\ TagCount(db, name) >= 1 => db' = db
            /\ TagCount(db', name) = 1
            /\ \A other_name \in TagNames \ {name} :
                 TagCount(db', other_name) = TagCount(db, other_name)
            /\ \A n \in TagNames : TagCount(db', n) <= 1]_vars

\* a name that the table holds has been inserted again: the call printed
\* the error of the database and the table holds two names
C16_Witness ==
  /\ ret.op = "insert_tag"
  /\ ret.pages = <<"IntegrityError">>
  /\ ret.path.name \in TagNames
  /\ TagCount(db, ret.path.name) = 1
  /\ Len(db.tags) = 2

(***************************************************************************)
(* Properties of the version number of a filename (SpecQuery).             *)
(***************************************************************************)
\* the value of the maximal run of digits that ends s, 0 without one
TrailingNumber(s) ==
  IF TrailingDigits(s) = 0 THEN 0
  ELSE int(SubSeq(s, Len(s) - TrailingDigits(s) + 1, Len(s)))

\* C17: the version number extracted from a filename is the integer value
\* of the whole trailing digit run of its stem (note_v10 gives 10), and 0
\* when the stem ends in no digit.
C17_VersionIsTrailingDigitRun ==
  ret.op = "get_version_from_filename"
  => ret.val = <<TrailingNumber(split_filename_from_extension(ret.path)[1])>>

(***************************************************************************)
(* Properties of the sibling scan (SpecQuery).                             *)
(***************************************************************************)
\* C18: the sibling scan for a file path returns exactly the files of that
\* file's own directory (not of its subdirectories) whose name without
\* extension and _v<N> suffix is the file's unversioned stem, each once.
C18_SiblingsAreTheFamily ==
  ret.op = "get_all_versions_of_file"
  => /\ {ret.val[k] : k \in 1..Len(ret.val)}
          = {get_filename_from_path(q) : q \in Family(ret.path, disk)}
     /\ Len(ret.val) = Cardinality(Family(ret.path, disk))

(***************************************************************************)
(* Properties of the identity of pages in filter_old_versions (SpecQuery). *)
(***************************************************************************)
\* C19: filter_old_versions identifies pages by path: when the input holds
\* two distinct Page objects with the same path, the output holds at most
\* one page with that path, the first of them.
C19_FilterKeepsOnePagePerPath ==
  ret.op = "filter_old_versions"
  => /\ \A k, j \in 1..Len(ret.val) : ret.val[k].path = ret.val[j].path => k = j
     /\ \A k \in 1..Len(ret.val) :
          \A j \in 1..Len(ret.pages) :
            (ret.pages[j].path = ret.val[k].path /\ ret.pages[j].id # ret.val[k].id)
            => \E f \in 1..(j - 1) : ret.pages[f].id = ret.val[k].id

(***************************************************************************)
(* Properties of the files written by racing saves (Spec).                 *)
(***************************************************************************)
\* caller i has completed a save to the path that caller j, whose save
\* scanned the same highest version, is about to write
SavedWhereOtherWrites(i, j) ==
  /\ i # j
  /\ page[j].pc = "scanned"
  /\ page[i].state = "live"
  /\ page[i].pc = "idle"
  /\ page[i].hasbody
  /\ page[i].path = page[j].path
  /\ page[i].path \in Paths(disk)
  /\ page[i].content = load(page[i].path, disk)

\* C20: two concurrent saves that computed the same next version number
\* write two distinct files with that version number, so that both saved
\* contents are on disk when both saves have completed.
C20_RacingSavesKeepBothContents ==
  [][\A i, j \in PageIds :
       (SavedWhereOtherWrites(i, j) /\ SaveWrite(j) /\ ret'.err = "none")
       => /\ Cardinality(Paths(disk')) = Cardinality(Paths(disk)) + 1
          /\ \E k \in 1..Len(disk') :
               /\ disk'[k].content = ReadFile(page[i].path, disk)
               /\ VersionNumber(disk'[k].path) = VersionNumber(page[i].path)
          /\ \E k \in 1..Len(disk') :
               /\ load(disk'[k].path, disk') = page'[j].content
               /\ disk'[k].path # page[i].path
               /\ VersionNumber(disk'[k].path) = VersionNumber(page[i].path)]_vars

(***************************************************************************)
(* Wiki.move and the content root.                                         *)
(***************************************************************************)
\* the path lies inside the directory top
InsideDir(p, top) == StartsAt(p, 1, top \o <<"/">>)

\* C21: a call of Wiki.move(url, newurl) that does not raise leaves every
\* file of the tree inside the content root, and the moved file is one of
\* them: no new url, '..' segments included, takes a file out of the root.
C21_MoveStaysInsideRoot ==
  [][(ret'.op = "move" /\ ret'.err = "none")
       => /\ \A p \in Paths(disk') : InsideDir(p, root)
          /\ Len(disk') = Len(disk)]_vars

(***************************************************************************)
(* The path that get_highest_version_of_file_path returns.                 *)
(***************************************************************************)
\* C22: for a path whose file exists, get_highest_version_of_file_path
\* returns the path of a file that exists, in the directory of the path,
\* whatever the directory and its subdirectories hold.
C22_HighestIsAnExistingSibling ==
  (/\ ret.op = "get_highest_version_of_file_path"
   /\ ret.err = "none"
   /\ ret.path \in Paths(disk))
  => /\ ret.val \in Paths(disk)
     /\ get_path_without_filename(ret.val) = get_path_without_filename(ret.path)

(***************************************************************************)
(* The pages that get_versions returns.                                    *)
(***************************************************************************)
\* the pages of the list have pairwise distinct paths
DistinctPaths(pages) ==
  \A i, j \in 1..Len(pages) : pages[i].path = pages[j].path => i = j

\* C23: get_versions(path, pages) on pages with pairwise distinct paths
\* returns each page at most once, for every directory tree, one whose
\* subdirectory repeats a filename of the family included.
C23_VersionsHoldEachPageOnce ==
  (/\ ret.op = "get_versions"
   /\ ret.err = "none"
   /\ DistinctPaths(ret.pages))
  => \A i, j \in 1..Len(ret.val) : ret.val[i] = ret.val[j] => i = j

(***************************************************************************)
(* index_by_tag against get_tags.                                          *)
(***************************************************************************)
\* the pages that get_tags lists under the tag
ListedUnder(tag, groups) ==
  UNION {{groups[k][2][j] : j \in 1..Len(groups[k][2])} :
           k \in {i \in 1..Len(groups) : groups[i][1] = tag}}

\* C24: index_by_tag and get_tags agree: for every tag, a page is returned
\* by index_by_tag exactly when get_tags lists it under the tag, which is
\* exactly when the tag is one of the trimmed pieces of the page's
\* comma-separated tags.
C24_IndexByTagAgreesWithGetTags ==
  (ret.op = "index_by_tag" /\ ret.err = "none")
  => LET idx == index(root, disk, dirs).pages
         returned == {ret.val[k] : k \in 1..Len(ret.val)}
         listed == ListedUnder(ret.path, get_tags(root, disk, dirs).val)
     IN  \A k \in 1..Len(idx) :
           /\ (idx[k] \in returned) <=> (idx[k] \in listed)
           /\ (idx[k] \in returned) <=> (ret.path \in TagSet(idx[k]))

(***************************************************************************)
(* Saves and the file of the url itself.                                   *)
(***************************************************************************)
\* Wiki.exists(url) is false: Wiki.get(url) returns None and
\* Wiki.get_bare(url) returns a bare page
UrlIsFree(u, d, ds) == ~exists(wiki_path(root, u), d, ds)

\* C25: for a url u without a version suffix, a page of u whose file
\* root/u.md does not exist was given by get_bare(u), and no step of its
\* caller, its first save and every further save included, creates that
\* file: afterwards exists(u) is still false, get(u) still returns None and
\* get_bare(u) still returns a bare page.
C25_SaveLeavesUrlFree ==
  [][\A i \in PageIds :
       (/\ page[i].state = "live"
        /\ ~HasVersionSuffix(wiki_path(root, page[i].url))
        /\ UrlIsFree(page[i].url, disk, dirs))
       => UrlIsFree(page[i].url, disk', dirs')]_vars

\* the page that get_bare(note) gave has been saved at least twice, the
\* last save without error, and d/note.md still does not exist
C25_Witness ==
  /\ page[1].state = "live"
  /\ page[1].url = note
  /\ nsaves >= 2
  /\ ret.op = "save"
  /\ ret.err = "none"
  /\ page[1].path = FilePath(root, note, 2)
  /\ {FilePath(root, note, 1), FilePath(root, note, 2)} \subseteq Paths(disk)
  /\ UrlIsFree(note, disk, dirs)

====
